---- MODULE Spec2Model ----
(***************************************************************************)
(* Model of rubble's src/ble/bytes.rs: the bounded ByteWriter, the slice   *)
(* cursor extension traits (SliceExt, BytesExt, MutSliceExt), the          *)
(* ToBytes / FromBytes traits with their impls, and the BytesOr            *)
(* dual-representation reference with its iterator.                        *)
(*                                                                         *)
(* A slice is a window [lo, hi) over a backing buffer (0-based lo,         *)
(* exclusive hi; the buffer itself is a 1-based sequence) wherever the     *)
(* position of the slice matters, and a plain sequence of bytes where only *)
(* its contents matter.                                                    *)
(***************************************************************************)
EXTENDS Integers, Sequences, FiniteSets, TLC

VARIABLES buf, ws, used, last, ncalls,
          data, cur, rd,
          ty, input, pc, rem, refl, ret, its, enc, orig, phase

wvars == <<buf, ws, used, last, ncalls>>
svars == <<data, cur, rd>>
cvars == <<ty, input, pc, rem, refl, ret, its, enc, orig, phase>>
vars == <<buf, ws, used, last, ncalls, data, cur, rd,
          ty, input, pc, rem, refl, ret, its, enc, orig, phase>>
notw == <<svars, cvars>>
nots == <<wvars, cvars>>
notc == <<wvars, svars>>

(***************************************************************************)
(* Bounds                                                                  *)
(***************************************************************************)
BufLen == 8        \* capacity C of the buffer handed to ByteWriter::new
MaxWriters == 2    \* regions alive at once (the original plus split-off ones)
MaxOther == 2      \* longest source slice passed to write_slice
MaxCalls == 3      \* calls made in one writer session
MaxData == 4       \* longest slice read through SliceExt
MaxRead == 5       \* largest len passed to read_slice
MaxLen == 2        \* longest byte span handed to from_bytes
MaxSlice == 1      \* longest &[u8] value held by reference
MaxElems == 2      \* longest sequence handed to from_ref
MaxIters == 2      \* iterators alive at once
MaxCap == 3        \* largest buffer a value is encoded into

Stale == {238}     \* stale contents of a buffer before any write (0xEE)
Elems == {1, 2}    \* element values of the slices that are read or written

\* lengths passed to skip and split_off: none, some, all, too many
Lens == {0, 1, 3, BufLen, BufLen + 1}

SeqsUpTo(S, n) == UNION {[1..k -> S] : k \in 0..n}

(***************************************************************************)
(* byteorder::ByteOrder                                                    *)
(***************************************************************************)
RECURSIVE LittleEndianBytes(_, _)
LittleEndianBytes(value, n) ==
    IF n = 0 THEN <<>>
    ELSE <<value % 256>> \o LittleEndianBytes(value \div 256, n - 1)

Reverse(s) == [i \in 1..Len(s) |-> s[Len(s) + 1 - i]]

\* B::write_u16 / write_u32 / write_u64 into a [0; n] array
ByteOrder_write(B, value, n) ==
    IF B = "LittleEndian" THEN LittleEndianBytes(value, n)
    ELSE Reverse(LittleEndianBytes(value, n))

ByteOrders == {"LittleEndian", "BigEndian"}

(***************************************************************************)
(* ByteWriter: a region [lo, hi) of buf.  Every operation is a function of *)
(* the writer w and the buffer b and returns the result, the writer and    *)
(* the buffer after the call, plus whatever the call hands back.           *)
(***************************************************************************)
Region(lo, hi) == [lo |-> lo, hi |-> hi]
NoRegion == Region(0, 0)

new(b) == Region(0, Len(b))

space_left(w) == w.hi - w.lo

\* self.0[..other.len()].copy_from_slice(other)
copy_from_slice(b, at, other) ==
    [i \in 1..Len(b) |->
        IF i > at /\ i <= at + Len(other) THEN other[i - at] ELSE b[i]]

\* the region is taken out of self before the check and not put back
skip_taken(w, b, bytes) ==
    IF space_left(w) < bytes
    THEN [res |-> "Eof", w |-> Region(w.hi, w.hi), buf |-> b,
          head |-> NoRegion]
    ELSE [res |-> "Ok", w |-> Region(w.lo + bytes, w.hi), buf |-> b,
          head |-> NoRegion]

skip(w, b, bytes) ==
    IF space_left(w) < bytes
    THEN [res |-> "Eof", w |-> w, buf |-> b, head |-> NoRegion]
    ELSE [res |-> "Ok", w |-> Region(w.lo + bytes, w.hi), buf |-> b,
          head |-> NoRegion]

\* self keeps the whole region instead of the tail
split_off_whole(w, b, len) ==
    IF space_left(w) < len
    THEN [res |-> "Eof", w |-> w, buf |-> b, head |-> NoRegion]
    ELSE [res |-> "Ok", w |-> w, buf |-> b,
          head |-> Region(w.lo, w.lo + len)]

split_off(w, b, len) ==
    IF space_left(w) < len
    THEN [res |-> "Eof", w |-> w, buf |-> b, head |-> NoRegion]
    ELSE [res |-> "Ok", w |-> Region(w.lo + len, w.hi), buf |-> b,
          head |-> Region(w.lo, w.lo + len)]

\* None is res = "None"; Some(first) is res = "Ok" with head the byte handed out
split_next_mut(w, b) ==
    IF space_left(w) = 0
    THEN [res |-> "None", w |-> w, buf |-> b, head |-> NoRegion]
    ELSE [res |-> "Ok", w |-> Region(w.lo + 1, w.hi), buf |-> b,
          head |-> Region(w.lo, w.lo + 1)]

write_byte(w, b, byte) ==
    LET first == split_next_mut(w, b) IN
    IF first.res = "None"
    THEN [res |-> "Eof", w |-> first.w, buf |-> b, head |-> NoRegion]
    ELSE [res |-> "Ok", w |-> first.w,
          buf |-> [b EXCEPT ![first.head.lo + 1] = byte], head |-> NoRegion]

\* copies what fits before it reports Eof
write_slice_partial(w, b, other) ==
    IF space_left(w) < Len(other)
    THEN [res |-> "Eof", w |-> w,
          buf |-> copy_from_slice(b, w.lo, SubSeq(other, 1, space_left(w))),
          head |-> NoRegion]
    ELSE [res |-> "Ok", w |-> Region(w.lo + Len(other), w.hi),
          buf |-> copy_from_slice(b, w.lo, other), head |-> NoRegion]

write_slice(w, b, other) ==
    IF space_left(w) < Len(other)
    THEN [res |-> "Eof", w |-> w, buf |-> b, head |-> NoRegion]
    ELSE [res |-> "Ok", w |-> Region(w.lo + Len(other), w.hi),
          buf |-> copy_from_slice(b, w.lo, other), head |-> NoRegion]

write_u16(w, b, B, value) == write_slice(w, b, ByteOrder_write(B, value, 2))

write_u32(w, b, B, value) == write_slice(w, b, ByteOrder_write(B, value, 4))

write_u64(w, b, B, value) == write_slice(w, b, ByteOrder_write(B, value, 8))

(***************************************************************************)
(* MutSliceExt for &mut [u8]: the same cursor on a raw mutable slice       *)
(***************************************************************************)
MutSliceExt_write_byte(s, b, byte) ==
    IF s.hi - s.lo = 0
    THEN [res |-> "Eof", w |-> s, buf |-> b, head |-> NoRegion]
    ELSE [res |-> "Ok", w |-> Region(s.lo + 1, s.hi),
          buf |-> [b EXCEPT ![s.lo + 1] = byte], head |-> NoRegion]

MutSliceExt_write_slice(s, b, other) ==
    IF s.hi - s.lo < Len(other)
    THEN [res |-> "Eof", w |-> s, buf |-> b, head |-> NoRegion]
    ELSE [res |-> "Ok", w |-> Region(s.lo + Len(other), s.hi),
          buf |-> copy_from_slice(b, s.lo, other), head |-> NoRegion]

(***************************************************************************)
(* The writer session.  ws[i] is a live region: kind "writer" is a         *)
(* ByteWriter, kind "slice" the &mut [u8] a writer was turned into by      *)
(* into_rest.  ws[1] is the writer made by new.  used[i] is the sum of the *)
(* byte counts of the calls on ws[i] that succeeded; last is the call just *)
(* made: who made it, how many bytes it asked for, the bytes it was to     *)
(* write, the space the region had left before it, and what it returned.   *)
(***************************************************************************)
Call(op, who, cnt, bytes, r) ==
    [op |-> op, who |-> who, cnt |-> cnt, bytes |-> bytes, res |-> r.res,
     head |-> r.head, space |-> ws[who].hi - ws[who].lo]

Writers == {i \in 1..Len(ws) : ws[i].kind = "writer"}
RawSlices == {i \in 1..Len(ws) : ws[i].kind = "slice"}

Entry(kind, w) == [kind |-> kind, lo |-> w.lo, hi |-> w.hi]

InitW ==
    /\ buf \in [1..BufLen -> Stale]
    /\ ws = <<Entry("writer", new(buf))>>
    /\ used = <<0>>
    /\ last = [op |-> "new", who |-> 1, cnt |-> 0, bytes |-> <<>>,
               res |-> "Ok", head |-> NoRegion, space |-> BufLen]
    /\ ncalls = 0

\* the effect of a call on region i that hands no new region back
Apply(i, op, cnt, bytes, r) ==
    /\ ncalls < MaxCalls
    /\ ncalls' = ncalls + 1
    /\ buf' = r.buf
    /\ ws' = [ws EXCEPT ![i] = Entry(ws[i].kind, r.w)]
    /\ used' = [used EXCEPT ![i] = IF r.res = "Ok" THEN @ + cnt ELSE @]
    /\ last' = Call(op, i, cnt, bytes, r)
    /\ UNCHANGED notw

WriteByte ==
    \E i \in Writers, byte \in {1} :
        Apply(i, "write_byte", 1, <<byte>>, write_byte(ws[i], buf, byte))

WriteSlice ==
    \E i \in Writers, other \in SeqsUpTo({3}, MaxOther) :
        Apply(i, "write_slice", Len(other), other,
              write_slice(ws[i], buf, other))

WriteU16 ==
    \E i \in Writers, B \in ByteOrders, value \in {4660} :
        Apply(i, "write_u16", 2, ByteOrder_write(B, value, 2),
              write_u16(ws[i], buf, B, value))

WriteU32 ==
    \E i \in Writers, B \in ByteOrders, value \in {305419896} :
        Apply(i, "write_u32", 4, ByteOrder_write(B, value, 4),
              write_u32(ws[i], buf, B, value))

WriteU64 ==
    \E i \in Writers, B \in ByteOrders, value \in {2018915346} :
        Apply(i, "write_u64", 8, ByteOrder_write(B, value, 8),
              write_u64(ws[i], buf, B, value))

Skip ==
    \E i \in Writers, bytes \in Lens :
        Apply(i, "skip", bytes, <<>>, skip(ws[i], buf, bytes))

SplitNextMut ==
    \E i \in Writers :
        Apply(i, "split_next_mut", 1, <<>>, split_next_mut(ws[i], buf))

\* the new writer is appended to ws when the call succeeds
SplitOff ==
    \E i \in Writers, len \in Lens :
        /\ Len(ws) < MaxWriters
        /\ ncalls < MaxCalls
        /\ ncalls' = ncalls + 1
        /\ LET r == split_off(ws[i], buf, len) IN
            /\ buf' = r.buf
            /\ ws' = IF r.res = "Ok"
                     THEN Append([ws EXCEPT ![i] = Entry("writer", r.w)],
                                 Entry("writer", r.head))
                     ELSE ws
            /\ used' = IF r.res = "Ok"
                       THEN Append([used EXCEPT ![i] = @ + len], 0)
                       ELSE used
            /\ last' = Call("split_off", i, len, <<>>, r)
            /\ UNCHANGED notw

IntoRest ==
    \E i \in Writers :
        /\ ncalls < MaxCalls
        /\ ncalls' = ncalls + 1
        /\ ws' = [ws EXCEPT ![i] = Entry("slice", ws[i])]
        /\ last' = [op |-> "into_rest", who |-> i, cnt |-> 0, bytes |-> <<>>,
                    res |-> "Ok", head |-> Region(ws[i].lo, ws[i].hi),
                    space |-> ws[i].hi - ws[i].lo]
        /\ UNCHANGED <<buf, used, notw>>

MutWriteByte ==
    \E i \in RawSlices, byte \in {2} :
        Apply(i, "MutSliceExt::write_byte", 1, <<byte>>,
              MutSliceExt_write_byte(ws[i], buf, byte))

MutWriteSlice ==
    \E i \in RawSlices, other \in SeqsUpTo({3}, MaxOther) :
        Apply(i, "MutSliceExt::write_slice", Len(other), other,
              MutSliceExt_write_slice(ws[i], buf, other))

NextW ==
    \/ WriteByte
    \/ WriteSlice
    \/ WriteU16
    \/ WriteU32
    \/ WriteU64
    \/ Skip
    \/ SplitNextMut
    \/ SplitOff
    \/ IntoRest
    \/ MutWriteByte
    \/ MutWriteSlice

(***************************************************************************)
(* SliceExt for &[T] and BytesExt for &[u8]: a shared slice s is a window  *)
(* [lo, hi) of the sequence d it borrows from.  Each read returns the      *)
(* result, the slice after the call and the elements read.                 *)
(***************************************************************************)
Window(d) == Region(0, Len(d))

Contents(s, d) == SubSeq(d, s.lo + 1, s.hi)

read_first(s, d) ==
    IF s.hi - s.lo = 0
    THEN [res |-> "Eof", s |-> s, val |-> <<>>]
    ELSE [res |-> "Ok", s |-> Region(s.lo + 1, s.hi), val |-> <<d[s.lo + 1]>>]

\* takes what is left when too few elements remain
read_array_drain(s, d, n) ==
    IF s.hi - s.lo < n
    THEN [res |-> "Eof", s |-> Region(s.hi, s.hi), val |-> <<>>]
    ELSE [res |-> "Ok", s |-> Region(s.lo + n, s.hi),
          val |-> SubSeq(d, s.lo + 1, s.lo + n)]

\* n is the length of the array-like type S
read_array(s, d, n) ==
    IF s.hi - s.lo < n
    THEN [res |-> "Eof", s |-> s, val |-> <<>>]
    ELSE [res |-> "Ok", s |-> Region(s.lo + n, s.hi),
          val |-> SubSeq(d, s.lo + 1, s.lo + n)]

read_slice(s, d, len) ==
    IF s.hi - s.lo < len
    THEN [res |-> "Eof", s |-> s, val |-> <<>>]
    ELSE [res |-> "Ok", s |-> Region(s.lo + len, s.hi),
          val |-> SubSeq(d, s.lo + 1, s.lo + len)]

RECURSIVE LittleEndianValue(_)
LittleEndianValue(arr) ==
    IF arr = <<>> THEN 0 ELSE arr[1] + 256 * LittleEndianValue(Tail(arr))

\* B::read_u16 / read_u32 / read_u64 of a filled array
ByteOrder_read(B, arr) ==
    IF B = "LittleEndian" THEN LittleEndianValue(arr)
    ELSE LittleEndianValue(Reverse(arr))

\* val is the array read; the integer returned is Value below
read_u8(s, d) == read_array(s, d, 1)

read_u16(s, d) == read_array(s, d, 2)

read_u32(s, d) == read_array(s, d, 4)

(***************************************************************************)
(* The cursor session: cur is a slice of data, rd the read just made (its  *)
(* operation, the length it asked for, the slice it was made on, and what  *)
(* it returned).                                                           *)
(***************************************************************************)
ArrayLens == {0, 1, 2, 4}

InitS ==
    /\ data \in SeqsUpTo(Elems, MaxData)
    /\ cur = Window(data)
    /\ rd = [op |-> "none", n |-> 0, before |-> cur, res |-> "Ok",
             val |-> <<>>, int |-> 0]

Read(op, n, r, int) ==
    /\ cur' = r.s
    /\ rd' = [op |-> op, n |-> n, before |-> cur, res |-> r.res,
              val |-> r.val, int |-> IF r.res = "Ok" THEN int ELSE 0]
    /\ UNCHANGED <<data, nots>>

ReadFirst == Read("read_first", 1, read_first(cur, data), 0)

ReadArray == \E n \in ArrayLens : Read("read_array", n, read_array(cur, data, n), 0)

ReadSlice == \E len \in 0..MaxRead : Read("read_slice", len, read_slice(cur, data, len), 0)

ReadU8 ==
    LET r == read_u8(cur, data) IN
    Read("read_u8", 1, r, IF r.res = "Ok" THEN r.val[1] ELSE 0)

ReadU16 ==
    \E B \in ByteOrders :
        LET r == read_u16(cur, data) IN
        Read("read_u16", 2, r, ByteOrder_read(B, r.val))

ReadU32 ==
    \E B \in ByteOrders :
        LET r == read_u32(cur, data) IN
        Read("read_u32", 4, r, ByteOrder_read(B, r.val))

NextS ==
    \/ ReadFirst
    \/ ReadArray
    \/ ReadSlice
    \/ ReadU8
    \/ ReadU16
    \/ ReadU32

(***************************************************************************)
(* Types and values of the encode/decode contract.  A type is the sequence *)
(* of its constructors, outermost first: <<"u8">>, <<"slice">> (&[u8]),    *)
(* <<"BytesOr">> \o T (BytesOr<T>) and <<"BytesOrSeq">> \o T               *)
(* (BytesOr<[T]>).  A u8 is a number, a &[u8] a sequence of numbers, and a *)
(* BytesOr the enum Inner: Bytes(b) or Or(r).                              *)
(***************************************************************************)
U8 == <<"u8">>
Slice == <<"slice">>
BytesOr(T) == <<"BytesOr">> \o T
BytesOrSeq(T) == <<"BytesOrSeq">> \o T

Bytes(b) == [tag |-> "Bytes", b |-> b]
Or(r) == [tag |-> "Or", r |-> r]

NoVal == "none"

\* Option: what a variable holds when there may be no value
None == <<>>
Some(v) == <<v>>

\* BytesOr::from_ref and From<&T>
from_ref(value) == Or(value)

ElemTypes == {U8, Slice, BytesOr(U8), BytesOr(Slice)}

TopTypes == {Slice} \cup {BytesOr(T) : T \in ElemTypes}
                    \cup {BytesOrSeq(T) : T \in ElemTypes}

IsSeqType(X) == Head(X) = "BytesOrSeq"
IsSingleType(X) == Head(X) = "BytesOr"

(***************************************************************************)
(* FromBytes: the result, the value, and the input slice after the call    *)
(***************************************************************************)
RECURSIVE FromBytes(_, _)

\* impl FromBytes for u8
u8_from_bytes(bytes) ==
    LET r == read_u8(Window(bytes), bytes) IN
    [res |-> r.res,
     val |-> IF r.res = "Ok" THEN r.val[1] ELSE NoVal,
     rest |-> Contents(r.s, bytes)]

\* impl FromBytes for &[u8]: mem::replace(bytes, &[])
slice_from_bytes(bytes) == [res |-> "Ok", val |-> bytes, rest |-> <<>>]

\* accepts a span with bytes left over after the T
BytesOr_from_bytes_lax(T, bytes) ==
    LET inner == FromBytes(T, bytes) IN
    IF inner.res # "Ok"
    THEN [res |-> inner.res, val |-> NoVal, rest |-> bytes]
    ELSE [res |-> "Ok", val |-> Bytes(bytes), rest |-> bytes]

\* impl FromBytes for BytesOr<T>: T is decoded from a copy of the slice, and
\* the caller's slice is the one stored, and is left where it was
BytesOr_from_bytes(T, bytes) ==
    LET inner == FromBytes(T, bytes) IN
    IF inner.res # "Ok"
    THEN [res |-> inner.res, val |-> NoVal, rest |-> bytes]
    ELSE IF inner.rest # <<>>
    THEN [res |-> "IncompleteParse", val |-> NoVal, rest |-> bytes]
    ELSE [res |-> "Ok", val |-> Bytes(bytes), rest |-> bytes]

FromBytes(X, bytes) ==
    IF X = U8 THEN u8_from_bytes(bytes)
    ELSE IF X = Slice THEN slice_from_bytes(bytes)
    ELSE BytesOr_from_bytes(Tail(X), bytes)

(***************************************************************************)
(* BytesOr::read and the iterator                                          *)
(***************************************************************************)
\* decodes through the stored span itself, which is left advanced
read_in_place(T, self) ==
    IF self.tag = "Bytes"
    THEN LET t == FromBytes(T, self.b) IN
         IF t.res # "Ok"
         THEN [res |-> "panic: unwrap", val |-> NoVal, self |-> self]
         ELSE IF t.rest # <<>>
         THEN [res |-> "panic: assert", val |-> NoVal, self |-> self]
         ELSE [res |-> "Ok", val |-> t.val, self |-> Bytes(t.rest)]
    ELSE [res |-> "Ok", val |-> self.r, self |-> self]

\* self is the reflector after the call: read binds a copy of the span
read(T, self) ==
    IF self.tag = "Bytes"
    THEN LET t == FromBytes(T, self.b) IN
         IF t.res # "Ok"
         THEN [res |-> "panic: unwrap", val |-> NoVal, self |-> self]
         ELSE IF t.rest # <<>>
         THEN [res |-> "panic: assert", val |-> NoVal, self |-> self]
         ELSE [res |-> "Ok", val |-> t.val, self |-> self]
    ELSE [res |-> "Ok", val |-> self.r, self |-> self]

\* BytesOr<[T]>::iter: IterBytesOr { inner: *self }
iter(self) == [inner |-> self, out |-> <<>>, done |-> FALSE]

\* the referenced slice is read from its end
IterBytesOr_next_back(T, inner) ==
    IF inner.tag = "Bytes"
    THEN IF inner.b = <<>>
         THEN [res |-> "None", val |-> NoVal, inner |-> inner]
         ELSE LET t == FromBytes(T, inner.b) IN
              IF t.res # "Ok"
              THEN [res |-> "panic: unwrap", val |-> NoVal, inner |-> inner]
              ELSE [res |-> "Some", val |-> t.val, inner |-> Bytes(t.rest)]
    ELSE IF inner.r = <<>>
         THEN [res |-> "None", val |-> NoVal, inner |-> inner]
         ELSE [res |-> "Some", val |-> inner.r[Len(inner.r)],
               inner |-> Or(SubSeq(inner.r, 1, Len(inner.r) - 1))]

\* IterBytesOr::next: the item and the iterator's inner after the call
IterBytesOr_next(T, inner) ==
    IF inner.tag = "Bytes"
    THEN IF inner.b = <<>>
         THEN [res |-> "None", val |-> NoVal, inner |-> inner]
         ELSE LET t == FromBytes(T, inner.b) IN
              IF t.res # "Ok"
              THEN [res |-> "panic: unwrap", val |-> NoVal, inner |-> inner]
              ELSE [res |-> "Some", val |-> t.val, inner |-> Bytes(t.rest)]
    ELSE LET f == read_first(Window(inner.r), inner.r) IN
         IF f.res # "Ok"
         THEN [res |-> "None", val |-> NoVal, inner |-> inner]
         ELSE [res |-> "Some", val |-> f.val[1],
               inner |-> Or(Contents(f.s, inner.r))]

(***************************************************************************)
(* ToBytes: the result, the writer and the buffer after the call           *)
(***************************************************************************)
RECURSIVE HasToBytes(_)
HasToBytes(X) ==
    IF X = U8 THEN FALSE
    ELSE IF X = Slice THEN TRUE
    ELSE HasToBytes(Tail(X))

RECURSIVE to_bytes(_, _, _, _)
RECURSIVE to_bytes_each(_, _, _, _)

\* for t in ts { t.to_bytes(buffer)?; } Ok(())
to_bytes_each(T, ts, w, b) ==
    IF ts = <<>>
    THEN [res |-> "Ok", w |-> w, buf |-> b, head |-> NoRegion]
    ELSE LET r == to_bytes(T, Head(ts), w, b) IN
         IF r.res # "Ok" THEN r ELSE to_bytes_each(T, Tail(ts), r.w, r.buf)

to_bytes(X, v, w, b) ==
    IF X = Slice THEN write_slice(w, b, v)
    ELSE IF v.tag = "Bytes" THEN write_slice(w, b, v.b)
    ELSE IF IsSeqType(X) THEN to_bytes_each(Tail(X), v.r, w, b)
    ELSE to_bytes(Tail(X), v.r, w, b)

(***************************************************************************)
(* The values a caller can hold of each type                               *)
(***************************************************************************)
ByteVals == {1, 2}

Spans == SeqsUpTo(ByteVals, MaxLen)

RECURSIVE Values(_)
Values(X) ==
    IF X = U8 THEN ByteVals
    ELSE IF X = Slice THEN SeqsUpTo(ByteVals, MaxSlice)
    ELSE {Or(v) : v \in Values(Tail(X))}
         \cup {Bytes(b) : b \in {s \in SeqsUpTo(ByteVals, MaxSlice) :
                                    FromBytes(X, s).res = "Ok"}}

(***************************************************************************)
(* The codec session.  ty is the type under test and input the byte slice  *)
(* from_bytes was last called on, as the call left it.  A value of ty is   *)
(* obtained by from_ref or by from_bytes (pc "idle" to "ready" or          *)
(* "failed"; the loop of the sequence form runs through "test" and "body"  *)
(* with rem its copy of the slice), then read, and either iterated or      *)
(* encoded; Reload hands the encoded bytes to from_bytes again (phase      *)
(* "back"), orig being the value that was encoded.  its[k].out collects    *)
(* the items iterator k has returned, ret the result of the last call.     *)
(***************************************************************************)
Ret(op, res, val, arg) == [op |-> op, res |-> res, val |-> val, arg |-> arg]
NoRet == Ret("none", "Ok", None, <<>>)
NoEnc == [res |-> "none", m |-> 0, cap |-> 0, out |-> <<>>]

InitC ==
    /\ ty \in TopTypes
    /\ input = <<>>
    /\ pc = "idle"
    /\ rem = <<>>
    /\ refl = None
    /\ ret = NoRet
    /\ its = <<>>
    /\ enc = NoEnc
    /\ orig = None
    /\ phase = "first"

\* the slice from_bytes is called on: any span at first, the encoded bytes
\* after Reload
Given == IF phase = "back" THEN {input} ELSE Spans

FromRef ==
    /\ pc = "idle"
    /\ phase = "first"
    /\ ty # Slice
    /\ \E value \in (IF IsSeqType(ty)
                     THEN SeqsUpTo(Values(Tail(ty)), MaxElems)
                     ELSE Values(Tail(ty))) :
        /\ refl' = Some(from_ref(value))
        /\ ret' = Ret("from_ref", "Ok", None, <<>>)
    /\ pc' = "ready"
    /\ UNCHANGED <<ty, input, rem, its, enc, orig, phase, notc>>

\* from_bytes of &[u8] and of BytesOr<T>
FromBytesCall ==
    /\ pc = "idle"
    /\ ~IsSeqType(ty)
    /\ \E bytes \in Given :
        LET r == FromBytes(ty, bytes) IN
        /\ input' = r.rest
        /\ refl' = IF r.res = "Ok" THEN Some(r.val) ELSE None
        /\ ret' = Ret("from_bytes", r.res, None, bytes)
        /\ pc' = IF r.res = "Ok" THEN "ready" ELSE "failed"
    /\ UNCHANGED <<ty, rem, its, enc, orig, phase, notc>>

\* from_bytes of BytesOr<[T]>: let bytes = &mut &**bytes;
SeqFromBytesEnter ==
    /\ pc = "idle"
    /\ IsSeqType(ty)
    /\ \E bytes \in Given :
        /\ input' = bytes
        /\ rem' = bytes
    /\ pc' = "test"
    /\ UNCHANGED <<ty, refl, ret, its, enc, orig, phase, notc>>

\* while !bytes.is_empty(), and Ok(BytesOr(Inner::Bytes(bytes))) after it
SeqFromBytesTest ==
    /\ pc = "test"
    /\ IF rem # <<>>
       THEN /\ pc' = "body"
            /\ UNCHANGED <<refl, ret>>
       ELSE /\ pc' = "ready"
            /\ refl' = Some(Bytes(input))
            /\ ret' = Ret("from_bytes", "Ok", None, input)
    /\ UNCHANGED <<ty, input, rem, its, enc, orig, phase, notc>>

\* T::from_bytes(bytes)?
SeqFromBytesBody ==
    /\ pc = "body"
    /\ LET t == FromBytes(Tail(ty), rem) IN
        IF t.res = "Ok"
        THEN /\ rem' = t.rest
             /\ pc' = "test"
             /\ UNCHANGED ret
        ELSE /\ pc' = "failed"
             /\ ret' = Ret("from_bytes", t.res, None, input)
             /\ UNCHANGED rem
    /\ UNCHANGED <<ty, input, refl, its, enc, orig, phase, notc>>

ReadCall ==
    /\ pc = "ready"
    /\ IsSingleType(ty)
    /\ LET r == read(Tail(ty), refl[1]) IN
        /\ refl' = Some(r.self)
        /\ ret' = Ret("read", r.res,
                      IF r.res = "Ok" THEN Some(r.val) ELSE None, <<>>)
    /\ UNCHANGED <<ty, input, pc, rem, its, enc, orig, phase, notc>>

IterCall ==
    /\ pc = "ready"
    /\ IsSeqType(ty)
    /\ Len(its) < MaxIters
    /\ enc = NoEnc
    /\ its' = Append(its, iter(refl[1]))
    /\ ret' = Ret("iter", "Ok", None, <<>>)
    /\ UNCHANGED <<ty, input, pc, rem, refl, enc, orig, phase, notc>>

NextCall ==
    /\ pc = "ready"
    /\ \E k \in 1..Len(its) :
        /\ ~its[k].done
        /\ LET n == IterBytesOr_next(Tail(ty), its[k].inner) IN
            /\ its' = [its EXCEPT ![k] =
                        [inner |-> n.inner,
                         out |-> IF n.res = "Some" THEN Append(@.out, n.val)
                                 ELSE @.out,
                         done |-> n.res # "Some"]]
            /\ ret' = Ret("next", n.res, None, <<>>)
    /\ UNCHANGED <<ty, input, pc, rem, refl, enc, orig, phase, notc>>

\* refl.to_bytes(&mut ByteWriter::new(&mut b)) for a buffer b of cap bytes
ToBytesCall ==
    /\ pc = "ready"
    /\ phase = "first"
    /\ HasToBytes(ty)
    /\ enc = NoEnc
    /\ its = <<>>
    /\ \E cap \in 0..MaxCap : \E b \in [1..cap -> Stale] :
        LET r == to_bytes(ty, refl[1], new(b), b)
        IN  /\ enc' = [res |-> r.res, m |-> cap - space_left(r.w),
                       cap |-> cap, out |-> r.buf]
            /\ ret' = Ret("to_bytes", r.res, None, <<>>)
    /\ UNCHANGED <<ty, input, pc, rem, refl, its, orig, phase, notc>>

\* the bytes just encoded become the input of a second from_bytes
Reload ==
    /\ pc = "ready"
    /\ phase = "first"
    /\ enc.res = "Ok"
    /\ phase' = "back"
    /\ orig' = refl
    /\ input' = SubSeq(enc.out, 1, enc.m)
    /\ pc' = "idle"
    /\ refl' = None
    /\ its' = <<>>
    /\ rem' = <<>>
    /\ ret' = NoRet
    /\ UNCHANGED <<ty, enc, notc>>

NextC ==
    \/ FromRef
    \/ FromBytesCall
    \/ SeqFromBytesEnter
    \/ SeqFromBytesTest
    \/ SeqFromBytesBody
    \/ ReadCall
    \/ IterCall
    \/ NextCall
    \/ ToBytesCall
    \/ Reload

InitIdleW ==
    /\ buf = <<>>
    /\ ws = <<>>
    /\ used = <<>>
    /\ last = <<>>
    /\ ncalls = 0

InitIdleS ==
    /\ data = <<>>
    /\ cur = NoRegion
    /\ rd = <<>>

InitIdleC ==
    /\ ty = <<>>
    /\ input = <<>>
    /\ pc = "off"
    /\ rem = <<>>
    /\ refl = None
    /\ ret = NoRet
    /\ its = <<>>
    /\ enc = NoEnc
    /\ orig = None
    /\ phase = "off"

InitWriter == InitW /\ InitIdleS /\ InitIdleC

InitCursor == InitS /\ InitIdleW /\ InitIdleC

InitCodec == InitC /\ InitIdleW /\ InitIdleS

SpecW == InitWriter /\ [][NextW]_vars

SpecS == InitCursor /\ [][NextS]_vars

SpecC == InitCodec /\ [][NextC]_vars

\* the calls are straight-line code: a call that has begun keeps running
FairSpecC == SpecC /\ WF_vars(NextC)

(***************************************************************************)
(* Properties of the writer session (SpecW)                                *)
(***************************************************************************)
WriteOps == {"write_byte", "write_slice", "write_u16", "write_u32",
             "write_u64"}

\* the regions other than i are the same before and after the step
OthersKept(i) ==
    /\ Len(ws') = Len(ws)
    /\ \A j \in 1..Len(ws) : j # i => ws'[j] = ws[j]

\* the step changed no byte outside positions lo+1 .. hi
OnlyChanged(lo, hi) ==
    \A j \in 1..BufLen : (j <= lo \/ j > hi) => buf'[j] = buf[j]

\* C1: a write of c bytes through a ByteWriter with n bytes left fails with
\* Eof exactly when c > n; when it succeeds all c bytes stand at the front of
\* the region the writer had and the writer moved past them; when it fails
\* the writer, its space_left() and every byte of the buffer are as before.
C1_WriteAtomic ==
    [][(last'.op \in WriteOps) =>
        LET i == last'.who
            n == space_left(ws[i])
            c == last'.cnt
        IN  /\ last'.res \in {"Ok", "Eof"}
            /\ (last'.res = "Eof") <=> (c > n)
            /\ OthersKept(i)
            /\ (last'.res = "Ok") =>
                /\ Len(last'.bytes) = c
                /\ \A j \in 1..c : buf'[ws[i].lo + j] = last'.bytes[j]
                /\ OnlyChanged(ws[i].lo, ws[i].lo + c)
                /\ ws'[i].lo = ws[i].lo + c
                /\ ws'[i].hi = ws[i].hi
            /\ (last'.res = "Eof") =>
                /\ buf' = buf
                /\ ws' = ws
                /\ space_left(ws'[i]) = n
    ]_vars

\* a write_u32 failed on a writer that had written before and had room for
\* part of the value
C1_Witness ==
    /\ last.op = "write_u32"
    /\ last.res = "Eof"
    /\ last.space > 0
    /\ used[last.who] > 0

\* C2: the region of the writer made by new is a suffix of the buffer and
\* its space_left() is the capacity minus the byte counts of the calls on it
\* that succeeded; a call that fails (Eof, or None) leaves every region and
\* the buffer as they were.
C2_SpaceAccounting ==
    /\ [](ws # <<>> /\ ws[1].kind = "writer" =>
            /\ ws[1].hi = BufLen
            /\ ws[1].lo >= 0
            /\ ws[1].lo <= ws[1].hi
            /\ space_left(ws[1]) = BufLen - used[1])
    /\ [][(last'.res \in {"Eof", "None"}) => ws' = ws /\ buf' = buf]_vars

\* the first writer has made calls of both outcomes and is neither untouched
\* nor full
C2_Witness ==
    /\ ws[1].kind = "writer"
    /\ last.who = 1
    /\ last.res = "Eof"
    /\ used[1] > 0
    /\ used[1] < BufLen

Disjoint(a, b) == a.hi <= b.lo \/ b.hi <= a.lo \/ a.lo = a.hi \/ b.lo = b.hi

\* C3: split_off(k) with n >= k bytes left returns a writer over exactly the
\* next k bytes and leaves the original the n - k bytes after them; with
\* n < k it fails with Eof and changes nothing.  Regions never overlap, and
\* a call through one region changes bytes only inside that region, hence
\* none inside another and none past its own end.
C3_SplitDisjoint ==
    /\ [](\A i, j \in 1..Len(ws) : i # j => Disjoint(ws[i], ws[j]))
    /\ [][(last'.op = "split_off") =>
            LET i == last'.who
                n == space_left(ws[i])
                k == last'.cnt
            IN  /\ (last'.res = "Ok") <=> (n >= k)
                /\ (last'.res = "Ok") =>
                    /\ Len(ws') = Len(ws) + 1
                    /\ ws'[Len(ws')] =
                         Entry("writer", Region(ws[i].lo, ws[i].lo + k))
                    /\ space_left(ws'[Len(ws')]) = k
                    /\ ws'[i] = Entry("writer", Region(ws[i].lo + k, ws[i].hi))
                    /\ space_left(ws'[i]) = n - k
                    /\ buf' = buf
                /\ (last'.res # "Ok") =>
                    /\ last'.res = "Eof"
                    /\ ws' = ws
                    /\ buf' = buf
       ]_vars
    /\ [][(ncalls' # ncalls) =>
            /\ OnlyChanged(ws[last'.who].lo, ws[last'.who].hi)
            /\ ws'[last'.who].hi <= ws[last'.who].hi
            /\ ws'[last'.who].lo >= ws[last'.who].lo
       ]_vars

\* after a split both the split-off writer and the original have written
C3_Witness ==
    /\ Len(ws) = 2
    /\ used[2] > 0
    /\ last.op \in WriteOps
    /\ last.who = 1
    /\ last.res = "Ok"
    /\ \E j \in 1..BufLen : buf[j] \notin Stale /\ j > ws[2].lo - used[2]
                            /\ j <= ws[2].hi

\* C10: every write_* of ByteWriter returns Eof when the writer is full,
\* whatever its argument, and MutSliceExt::write_slice returns an error on an
\* empty destination, whatever the source.
C10_FullAlwaysFails ==
    (last # <<>> /\ last.op \in WriteOps \cup {"MutSliceExt::write_slice"}
        /\ last.space = 0)
    => last.res = "Eof"

(***************************************************************************)
(* Properties of the cursor session (SpecS)                                *)
(***************************************************************************)
\* C9: read_first, read_array and read_slice on a slice of n elements
\* succeed exactly when n is at least 1, the array's length, len; they then
\* return the first elements in order and advance the slice by that many;
\* otherwise they return Eof and the slice has the start and length it had.
C9_ReadAtomic ==
    (rd # <<>> /\ rd.op \in {"read_first", "read_array", "read_slice"}) =>
        LET n == rd.before.hi - rd.before.lo IN
        /\ rd.res \in {"Ok", "Eof"}
        /\ (rd.res = "Ok") <=> (n >= rd.n)
        /\ (rd.res = "Ok") =>
            /\ rd.val = SubSeq(data, rd.before.lo + 1, rd.before.lo + rd.n)
            /\ cur = Region(rd.before.lo + rd.n, rd.before.hi)
        /\ (rd.res = "Eof") => cur = rd.before

\* a read_array failed on a slice that an earlier read had advanced and that
\* still held elements
C9_Witness ==
    /\ rd # <<>>
    /\ rd.op = "read_array"
    /\ rd.res = "Eof"
    /\ rd.before.lo > 0
    /\ rd.before.hi > rd.before.lo

(***************************************************************************)
(* Properties of the codec session (SpecC, FairSpecC)                      *)
(***************************************************************************)
Prefix(a, b) == Len(a) <= Len(b) /\ SubSeq(b, 1, Len(a)) = a

\* the bytes that decode to v: what to_bytes writes, and the byte itself for
\* a u8
RECURSIVE Encoding(_, _)
Encoding(T, v) ==
    IF T = U8 THEN <<v>>
    ELSE IF T = Slice THEN v
    ELSE IF v.tag = "Bytes" THEN v.b
    ELSE Encoding(Tail(T), v.r)

RECURSIVE Wire(_, _)
Wire(T, vs) ==
    IF vs = <<>> THEN <<>> ELSE Encoding(T, Head(vs)) \o Wire(T, Tail(vs))

\* what a caller can observe of a value: a reflector is as good as what
\* read() returns or iter() yields
RECURSIVE Observed(_, _)
RECURSIVE Drained(_, _, _)

Drained(T, inner, fuel) ==
    LET n == IterBytesOr_next(T, inner) IN
    IF fuel = 0 \/ n.res # "Some" THEN <<>>
    ELSE <<Observed(T, n.val)>> \o Drained(T, n.inner, fuel - 1)

Observed(X, v) ==
    IF X = U8 \/ X = Slice THEN v
    ELSE IF IsSeqType(X) THEN Drained(Tail(X), v, MaxLen + MaxElems + 1)
    ELSE Observed(Tail(X), read(Tail(X), v).val)

\* C4: a value of a type with both ToBytes and FromBytes, encoded into m
\* bytes and decoded from exactly those bytes, comes back equal, and the
\* input slice has been advanced by m bytes and is empty.
C4_RoundTrip ==
    (phase = "back" /\ pc \in {"ready", "failed"}) =>
        /\ pc = "ready"
        /\ input = <<>>
        /\ Observed(ty, refl[1]) = Observed(ty, orig[1])

\* C5: from_bytes of BytesOr<T> on a span returns T's error when T's decode
\* of the span fails, IncompleteParse when it succeeds with bytes left, and
\* succeeds, storing the whole span, only when it consumes the span.
C5_SingleFromBytes ==
    (IsSingleType(ty) /\ ret.op = "from_bytes") =>
        LET span == ret.arg
            t == FromBytes(Tail(ty), span)
        IN  /\ (t.res # "Ok") => (ret.res = t.res /\ pc = "failed")
            /\ (t.res = "Ok" /\ t.rest # <<>>) =>
                    (ret.res = "IncompleteParse" /\ pc = "failed")
            /\ (t.res = "Ok" /\ t.rest = <<>>) =>
                    (ret.res = "Ok" /\ pc = "ready" /\ refl = Some(Bytes(span)))
            /\ (Tail(ty) = U8) =>
                    ret.res = (IF Len(span) = 0 THEN "Eof"
                               ELSE IF Len(span) = 1 THEN "Ok"
                               ELSE "IncompleteParse")
            /\ (Tail(ty) = Slice) => ret.res = "Ok"

\* a BytesOr<u8> was refused for the byte after the u8
C5_Witness ==
    /\ ty = BytesOr(U8)
    /\ ret.op = "from_bytes"
    /\ ret.res = "IncompleteParse"
    /\ Len(ret.arg) = 2

\* the state of iterator it agrees with the sequence vs
Yields(it, vs) == Prefix(it.out, vs) /\ (it.done => it.out = vs)

\* C6 as stated: for every element type, every iterator of a sequence
\* reflector yields v1..vk in order and ends, whether the reflector was made
\* by from_ref over v1..vk or by from_bytes from the k encodings in a row.
C6_IterEveryType ==
    (IsSeqType(ty) /\ pc = "ready") =>
        \A k \in 1..Len(its) :
            /\ refl[1].tag = "Or" => Yields(its[k], refl[1].r)
            /\ refl[1].tag = "Bytes" =>
                \A vs \in SeqsUpTo(Values(Tail(ty)), MaxElems) :
                    Wire(Tail(ty), vs) = refl[1].b => Yields(its[k], vs)

\* C6: every iterator of a sequence reflector made by from_ref over v1..vk
\* (any element type), or by from_bytes from the k encodings in a row when
\* the element type is u8, yields v1..vk in order and ends, however many
\* iterators there are and however far the others were advanced; next()
\* never panics.
C6_IterRestart ==
    (IsSeqType(ty) /\ pc = "ready") =>
        /\ ret.op = "next" => ret.res \in {"Some", "None"}
        /\ \A k \in 1..Len(its) :
            /\ refl[1].tag = "Or" => Yields(its[k], refl[1].r)
            /\ (refl[1].tag = "Bytes" /\ Tail(ty) = U8) =>
                /\ Yields(its[k], refl[1].b)
                /\ \A vs \in SeqsUpTo(Values(U8), MaxLen) :
                    Wire(U8, vs) = refl[1].b => Yields(its[k], vs)

\* a second iterator over two bytes-backed u8s was run to its end after the
\* first one had ended
C6_Witness ==
    /\ ty = BytesOrSeq(U8)
    /\ pc = "ready"
    /\ refl[1].tag = "Bytes"
    /\ Len(refl[1].b) = 2
    /\ Len(its) = 2
    /\ its[1].done
    /\ its[2].done
    /\ Len(its[2].out) = 2

\* C7: from_bytes of a sequence reflector returns, and an iterator yields a
\* bounded number of elements
C7_Finite ==
    /\ [](\A k \in 1..Len(its) : Len(its[k].out) <= MaxLen + MaxElems)
    /\ (pc \in {"test", "body"}) ~> (pc \in {"ready", "failed"})

\* C8: read() on a reflector made by from_ref or by a successful from_bytes
\* returns the referenced value, or the value the span decodes to, never
\* panics, leaves the reflector as it was, and returns the same value again.
C8_ReadIdempotent ==
    /\ []((IsSingleType(ty) /\ ret.op = "read") =>
            /\ ret.res = "Ok"
            /\ refl[1].tag = "Or" => ret.val = Some(refl[1].r)
            /\ refl[1].tag = "Bytes" =>
                /\ FromBytes(Tail(ty), refl[1].b).res = "Ok"
                /\ ret.val = Some(FromBytes(Tail(ty), refl[1].b).val)
                /\ Tail(ty) = U8 =>
                        (Len(refl[1].b) = 1 /\ ret.val = Some(refl[1].b[1]))
                /\ Tail(ty) = Slice => ret.val = Some(refl[1].b))
    /\ [][(ret'.op = "read") =>
            /\ refl' = refl
            /\ (ret.op = "read" /\ ret.res = "Ok") =>
                    (ret'.res = "Ok" /\ ret'.val = ret.val)
       ]_vars

\* a bytes-backed BytesOr<u8> has been read
C8_Witness ==
    /\ ty = BytesOr(U8)
    /\ ret.op = "read"
    /\ refl[1].tag = "Bytes"
    /\ ret.val = Some(2)

====
